---- MODULE Spec2Model ----
(***************************************************************************)
(* A model of bcurve: the DLMM price grid, the geometric and logistic-S    *)
(* allocation curves, the fee schedule, the launch-phase policy, the       *)
(* verifier and the command-line run that ties them together.              *)
(*                                                                         *)
(* NUMBERS.  The program computes in f64.  A finite f64 value is modelled  *)
(* by the exact real it stands for, written                                *)
(*        s * (n / d) * 2^(e + f / LogDen)                                 *)
(* with s the sign, n/d a fraction of odd integers in lowest terms, e an   *)
(* integer and 0 <= f < LogDen.  Every arithmetic operation returns the    *)
(* exact real result (the rounding to 53 bits is abstracted away), and     *)
(* then applies the f64 range: a magnitude of 2^1024 or more is +-inf, a   *)
(* magnitude below 2^-1075 is 0.  inf and NaN follow IEEE 754.  The sign   *)
(* of a zero is not kept.  An operation whose exact result is not of the   *)
(* form above (an irrational power, a sum of incommensurable values) has   *)
(* no value in the model: evaluating it stops TLC with an error, so every  *)
(* checked state holds exact values only.                                  *)
(***************************************************************************)
EXTENDS Integers, Sequences, FiniteSets, TLC

VARIABLES
    fees,      \* a DlmmFeeParams value
    feeRes,    \* the last fee query and its result
    policy,    \* a LaunchPhasePolicy value
    polRes,    \* the last policy query and its result
    curve,     \* a Geometric or LogisticS curve
    curveRes,  \* the last curve or verifier call and its result
    run        \* the state of one run of the command-line program

vars == <<fees, feeRes, policy, polRes, curve, curveRes, run>>

\* Resolution of the fractional part of a binary exponent: 2^(1/LogDen) is the
\* growth factor closest to 1 that the model can raise to an i32 power.
LogDen == 2^22

\* f64: exponent of the first power of two that overflows to infinity
\* (f64::MAX < 2^1024), and of the largest power of two that rounds to zero.
F64_OVERFLOW_EXP == 1023 + 1
F64_UNDERFLOW_EXP == (-1074) - 1

\* The model has no value for this operation.
Unrepresentable == CHOOSE x \in {} : TRUE

Sign(i) == IF i > 0 THEN 1 ELSE IF i < 0 THEN -1 ELSE 0
Abs(i) == IF i < 0 THEN -i ELSE i
MinInt(a, b) == IF a <= b THEN a ELSE b
MaxInt(a, b) == IF a >= b THEN a ELSE b

RECURSIVE Gcd(_, _)
Gcd(a, b) == IF b = 0 THEN a ELSE Gcd(b, a % b)

\* The number of times 2 divides n (n > 0), and n without those factors.
RECURSIVE Twos(_)
Twos(n) == IF n % 2 = 0 THEN 1 + Twos(n \div 2) ELSE 0
RECURSIVE OddPart(_)
OddPart(n) == IF n % 2 = 0 THEN OddPart(n \div 2) ELSE n

\* floor(log2(n / d)) for integers n, d > 0.
RECURSIVE LgUp(_, _)
LgUp(n, d) == IF d <= n \div 2 THEN 1 + LgUp(n \div 2, d) ELSE 0
RECURSIVE LgDown(_, _)
LgDown(n, d) == IF n >= d THEN 0 ELSE LgDown(n, (d + 1) \div 2) - 1
Lg(n, d) == IF n >= d THEN LgUp(n, d) ELSE LgDown(n, d)

Zero == [k |-> "fin", s |-> 0, n |-> 0, d |-> 1, e |-> 0, f |-> 0]
Inf(sg) == [k |-> "inf", s |-> sg, n |-> 0, d |-> 1, e |-> 0, f |-> 0]
NaN == [k |-> "nan", s |-> 0, n |-> 0, d |-> 1, e |-> 0, f |-> 0]

IsNaN(a) == a.k = "nan"
IsInf(a) == a.k = "inf"
IsFinite(a) == a.k = "fin"
IsZero(a) == a.k = "fin" /\ a.s = 0

\* The f64 range applied to the exact value sg * (n/d) * 2^(e + f/LogDen),
\* n and d odd and coprime.  floor(log2 |x|) is Lg(n, d) + e: f/LogDen < 1
\* moves it only when n = d = 1, where it does not reach the next integer.
Ranged(sg, n, d, e, f) ==
    LET lg == Lg(n, d) + e
    IN  IF lg >= F64_OVERFLOW_EXP THEN Inf(sg)
        ELSE IF lg < F64_UNDERFLOW_EXP THEN Zero
        \* 2^-1075 itself lies halfway between 0 and the least subnormal
        \* and rounds to the even one, 0
        ELSE IF lg = F64_UNDERFLOW_EXP /\ n = 1 /\ d = 1 /\ f = 0 THEN Zero
        ELSE IF f # 0 /\ (n # 1 \/ d # 1) THEN Unrepresentable
        ELSE [k |-> "fin", s |-> sg, n |-> n, d |-> d, e |-> e, f |-> f]

\* The value sg * (n/d) * 2^(e + f/LogDen) for any integers n >= 0, d > 0.
Mk(sg, n, d, e, f) ==
    IF n = 0 \/ sg = 0 THEN Zero
    ELSE LET g  == Gcd(n, d)
             n1 == n \div g
             d1 == d \div g
         IN  Ranged(sg, OddPart(n1), OddPart(d1), e + Twos(n1) - Twos(d1), f)

\* The integer i and the fraction a/b (b # 0) as values.
FromInt(i) == Mk(Sign(i), Abs(i), 1, 0, 0)
Frac(a, b) == Mk(Sign(a) * Sign(b), Abs(a), Abs(b), 0, 0)
\* 2^(e + f/LogDen)
Pow2(e, f) == Mk(1, 1, 1, e, f)
One == FromInt(1)

FNeg(a) == [a EXCEPT !.s = -a.s]
FAbs(a) == [a EXCEPT !.s = Abs(a.s)]

FMul(a, b) ==
    IF IsNaN(a) \/ IsNaN(b) THEN NaN
    ELSE IF IsInf(a) \/ IsInf(b)
         THEN IF IsZero(a) \/ IsZero(b) THEN NaN ELSE Inf(a.s * b.s)
    ELSE IF IsZero(a) \/ IsZero(b) THEN Zero
    ELSE LET g1 == Gcd(a.n, b.d)
             g2 == Gcd(b.n, a.d)
             ff == a.f + b.f
         IN  Mk(a.s * b.s, (a.n \div g1) * (b.n \div g2),
                (a.d \div g2) * (b.d \div g1),
                a.e + b.e + (ff \div LogDen), ff % LogDen)

\* 1 / a
FRecip(a) ==
    IF IsNaN(a) THEN NaN
    ELSE IF IsInf(a) THEN Zero
    ELSE IF IsZero(a) THEN Inf(1)
    ELSE IF a.f = 0 THEN Mk(a.s, a.d, a.n, -a.e, 0)
    ELSE Mk(a.s, a.d, a.n, -a.e - 1, LogDen - a.f)

FDiv(a, b) ==
    IF IsNaN(a) \/ IsNaN(b) THEN NaN
    ELSE IF IsInf(a) THEN (IF IsInf(b) THEN NaN
                           ELSE Inf(a.s * (IF b.s = 0 THEN 1 ELSE b.s)))
    ELSE IF IsInf(b) THEN Zero
    ELSE IF IsZero(b) THEN (IF IsZero(a) THEN NaN ELSE Inf(a.s))
    ELSE IF IsZero(a) THEN Zero
    ELSE LET g1 == Gcd(a.n, b.n)
             g2 == Gcd(a.d, b.d)
             ff == a.f - b.f
         IN  Mk(a.s * b.s, (a.n \div g1) * (b.d \div g2),
                (a.d \div g2) * (b.n \div g1),
                a.e - b.e + (ff \div LogDen), ff % LogDen)

FAdd(a, b) ==
    IF IsNaN(a) \/ IsNaN(b) THEN NaN
    ELSE IF IsInf(a) THEN (IF IsInf(b) /\ b.s # a.s THEN NaN ELSE a)
    ELSE IF IsInf(b) THEN b
    ELSE IF IsZero(a) THEN b
    ELSE IF IsZero(b) THEN a
    ELSE IF a.f # b.f THEN Unrepresentable
    ELSE LET e0 == MinInt(a.e, b.e)
             g  == Gcd(a.d, b.d)
             x  == a.s * a.n * (2^(a.e - e0)) * (b.d \div g)
             y  == b.s * b.n * (2^(b.e - e0)) * (a.d \div g)
         IN  Mk(Sign(x + y), Abs(x + y), (a.d \div g) * b.d, e0, a.f)

FSub(a, b) == FAdd(a, FNeg(b))

\* -1, 0, 1 as the positive finite a is below, equal to or above the positive
\* finite b.
CmpPos(a, b) ==
    IF a.f # b.f
    THEN IF a.n = b.n /\ a.d = b.d
         THEN (IF a.e # b.e THEN Sign(a.e - b.e) ELSE Sign(a.f - b.f))
         ELSE Unrepresentable
    ELSE LET la == Lg(a.n, a.d) + a.e
             lb == Lg(b.n, b.d) + b.e
         IN  IF la # lb THEN Sign(la - lb)
             ELSE LET e0 == MinInt(a.e, b.e)
                      gd == Gcd(a.d, b.d)
                  IN  Sign(a.n * (2^(a.e - e0)) * (b.d \div gd)
                           - b.n * (2^(b.e - e0)) * (a.d \div gd))

\* -1, 0, 1 as a is below, equal to or above b; neither is NaN.
Cmp(a, b) ==
    IF IsInf(a) THEN (IF IsInf(b) /\ b.s = a.s THEN 0 ELSE a.s)
    ELSE IF IsInf(b) THEN -b.s
    ELSE IF a.s # b.s THEN Sign(a.s - b.s)
    ELSE IF a.s = 0 THEN 0
    ELSE IF a.s = 1 THEN CmpPos(a, b)
    ELSE CmpPos(b, a)

\* The f64 comparisons: every comparison with a NaN is false.
FLt(a, b) == ~IsNaN(a) /\ ~IsNaN(b) /\ Cmp(a, b) < 0
FLe(a, b) == ~IsNaN(a) /\ ~IsNaN(b) /\ Cmp(a, b) <= 0
FGt(a, b) == FLt(b, a)
FGe(a, b) == FLe(b, a)
FEq(a, b) == ~IsNaN(a) /\ ~IsNaN(b) /\ Cmp(a, b) = 0

\* f64::max and f64::min: a NaN operand is ignored.
FMax(a, b) == IF IsNaN(a) THEN b ELSE IF IsNaN(b) THEN a
              ELSE IF Cmp(a, b) >= 0 THEN a ELSE b
FMin(a, b) == IF IsNaN(a) THEN b ELSE IF IsNaN(b) THEN a
              ELSE IF Cmp(a, b) <= 0 THEN a ELSE b

\* f64::powi(a, i): the exponentiation by squaring of compiler-builtins
\* (__powidf2): the product is formed for |i| and inverted when i < 0.
\* The locals of each pass are bound once they are evaluated.
RECURSIVE PowLoop(_, _, _)
PowLoop(a, pow, mul) ==
    CHOOSE res \in
      {IF p2 = 0 THEN m2
       ELSE CHOOSE r2 \in {PowLoop(a2, p2, m2) : a2 \in {FMul(a, a)}} : TRUE :
          m2 \in {IF pow % 2 = 1 THEN FMul(mul, a) ELSE mul},
          p2 \in {pow \div 2}} : TRUE

FPowi(a, i) ==
    CHOOSE res \in
      {IF j < 0 THEN FRecip(m) ELSE m :
          j \in {i}, m \in {PowLoop(b, Abs(i), One) : b \in {a}}} : TRUE

\* The exact square root of a positive finite value.
ISqrt(n) == CHOOSE r \in 1..n : r * r = n
FSqrtExact(a) ==
    LET t == a.e * LogDen + a.f
    IN  IF a.f % 2 # 0 THEN Unrepresentable
        ELSE IF a.e % 2 = 0
        THEN Mk(1, ISqrt(a.n), ISqrt(a.d), a.e \div 2, a.f \div 2)
        ELSE Mk(1, ISqrt(a.n), ISqrt(a.d), (a.e - 1) \div 2,
                (a.f + LogDen) \div 2)

RECURSIVE RootPow2(_, _)
RootPow2(a, j) == IF j = 0 THEN a ELSE RootPow2(FSqrtExact(a), j - 1)

\* f64::powf(a, x) for finite a and a finite x = +-n * 2^e: the exact real
\* power where it is a value of the model, NaN for a negative base under a
\* fractional exponent.
FPowf(a, x) ==
    IF ~(IsFinite(a) /\ IsFinite(x)) THEN Unrepresentable
    ELSE IF IsZero(x) \/ a = One THEN One
    ELSE IF IsZero(a) THEN (IF x.s > 0 THEN Zero ELSE Inf(1))
    ELSE IF x.d # 1 \/ x.f # 0 THEN Unrepresentable
    ELSE IF a.s < 0 /\ x.e < 0 THEN NaN
    ELSE LET root == IF x.e < 0 THEN RootPow2(a, -x.e) ELSE a
             m    == IF x.e < 0 THEN x.n ELSE x.n * (2^x.e)
             pw   == PowLoop(root, m, One)
         IN  IF x.s < 0 THEN FRecip(pw) ELSE pw

(***************************************************************************)
(* i64 values are kept at their width as two 32-bit halves: hi is the      *)
(* upper half and lo the lower half, both read as signed 32-bit integers,  *)
(* so the value is hi * 2^32 + (lo mod 2^32).                              *)
(***************************************************************************)
I64(i) == [hi |-> IF i < 0 THEN -1 ELSE 0, lo |-> i]
I64_MAX == [hi |-> 2147483647, lo |-> -1]
I64_MIN == [hi |-> -2147483647 - 1, lo |-> 0]

\* `x as i32`: the low 32 bits.
AsI32(x) == x.lo

\* TRUE when the i64 fits the i32 range, so that `as i32` keeps its value.
FitsI32(x) == (x.hi = 0 /\ x.lo >= 0) \/ (x.hi = -1 /\ x.lo < 0)

\* -1, 0, 1 as the i64 a is below, equal to or above b.
I64Cmp(a, b) ==
    IF a.hi # b.hi THEN Sign(a.hi - b.hi)
    ELSE IF a.lo = b.lo THEN 0
    ELSE IF (a.lo >= 0) = (b.lo >= 0) THEN (IF a.lo < b.lo THEN -1 ELSE 1)
    ELSE IF a.lo < 0 THEN 1 ELSE -1
I64Max(a, b) == IF I64Cmp(a, b) >= 0 THEN a ELSE b

\* `x as f64`.
I64ToF(x) ==
    IF FitsI32(x) THEN FromInt(x.lo)
    ELSE IF x.lo = 0 THEN FMul(FromInt(x.hi), Pow2(32, 0))
    ELSE Unrepresentable

\* The indices of `for i in 0..n`; a loop of 2^31 or more passes is not
\* evaluated.
LoopRange(n) ==
    IF n.hi < 0 THEN {}
    ELSE IF n.hi = 0 /\ n.lo >= 0 THEN 0..(n.lo - 1)
    ELSE Unrepresentable

\* No value: the variable is not part of the specification being checked.
Idle == [op |-> "idle"]
None == [op |-> "none"]

(***************************************************************************)
(* dlmm.rs: the fee schedule.                                              *)
(***************************************************************************)
BPS_DENOM == FromInt(10000)

s_dec(p) == FDiv(p.bin_step_bps, BPS_DENOM)

base_fee_rate(p) == FMul(p.base_factor, s_dec(p))

\* The variable fee with its sign reversed.
variable_fee_rate_negated(p, va) ==
    FNeg(FMul(p.variable_fee_control, FPowi(FMul(va, s_dec(p)), 2)))

variable_fee_rate(p, va) ==
    LET s == s_dec(p)
    IN  FMul(p.variable_fee_control, FPowi(FMul(va, s), 2))

total_fee_rate_uncapped(p, va) ==
    FAdd(base_fee_rate(p), variable_fee_rate(p, va))

total_fee_rate(p, va) ==
    LET cap == FMax(p.max_fee_rate, Zero)
    IN  FMin(FAdd(base_fee_rate(p), variable_fee_rate(p, va)), cap)

min_price_sell_x_for_y(spot_price, max_price_impact_bps) ==
    FDiv(FMul(spot_price, BPS_DENOM), FSub(BPS_DENOM, max_price_impact_bps))

min_price_sell_y_for_x(spot_price, max_price_impact_bps) ==
    FDiv(FMul(spot_price, FSub(BPS_DENOM, max_price_impact_bps)), BPS_DENOM)

(***************************************************************************)
(* dlmm.rs: the launch-phase policy.  An address is a string, modelled as  *)
(* the sequence of its characters; the allowlist is a set of them.         *)
(***************************************************************************)
\* String equality, as HashSet<String>::contains decides it: the same bytes.
StrEqIgnoreCase(a, b) ==
    LET low(c) == IF c = "A" THEN "a" ELSE IF c = "B" THEN "b" ELSE c
    IN  /\ Len(a) = Len(b)
        /\ \A i \in 1..Len(a) : low(a[i]) = low(b[i])

StrEq(a, b) ==
    /\ Len(a) = Len(b)
    /\ \A i \in 1..Len(a) : a[i] = b[i]

is_allowed(pol, addr) == \E m \in pol.allowlist : StrEq(m, addr)

tau_no_ramp_test(pol, seconds_since_launch) ==
    IF FLe(seconds_since_launch, Zero)
    THEN FMax(pol.tau_start_pct, pol.tau_end_pct)
    ELSE LET t == FDiv(seconds_since_launch, pol.ramp_secs)
         IN  FAdd(pol.tau_start_pct,
                  FMul(t, FSub(pol.tau_end_pct, pol.tau_start_pct)))

\* tau without its launch branch: the ramp is extended below t = 0.
tau_no_launch_test(pol, seconds_since_launch) ==
    IF FGe(seconds_since_launch, pol.ramp_secs)
    THEN pol.tau_end_pct
    ELSE LET t == FDiv(seconds_since_launch, pol.ramp_secs)
         IN  FAdd(pol.tau_start_pct,
                  FMul(t, FSub(pol.tau_end_pct, pol.tau_start_pct)))

\* The branch tau returns from: the interpolation is the only one that
\* divides by ramp_secs.
tau_branch(pol, seconds_since_launch) ==
    IF FLe(seconds_since_launch, Zero) THEN "launch"
    ELSE IF FGe(seconds_since_launch, pol.ramp_secs) THEN "after_ramp"
    ELSE "interpolation"

tau(pol, seconds_since_launch) ==
    IF FLe(seconds_since_launch, Zero)
    THEN FMax(pol.tau_start_pct, pol.tau_end_pct)
    ELSE IF FGe(seconds_since_launch, pol.ramp_secs)
    THEN pol.tau_end_pct
    ELSE LET t == FDiv(seconds_since_launch, pol.ramp_secs)
         IN  FAdd(pol.tau_start_pct,
                  FMul(t, FSub(pol.tau_end_pct, pol.tau_start_pct)))

(***************************************************************************)
(* curves.rs: the price grid and the geometric curve.                      *)
(***************************************************************************)
\* A bin step given by the growth factor it produces: the bps value b with
\* 1 + b / 10000 = growth.
BpsOfGrowth(growth) == [k |-> "bps_of_growth", q |-> growth]

q(grid) ==
    IF grid.bin_step_bps.k = "bps_of_growth" THEN grid.bin_step_bps.q
    ELSE FAdd(One, FDiv(grid.bin_step_bps, FromInt(10000)))

grid_price_of_bin(grid, i) == FMul(grid.p0, FPowi(q(grid), AsI32(i)))

r(c) == FPowf(q(c.grid), FSub(c.theta, One))

g(c) == FPowf(q(c.grid), c.theta)

delta_x0(c) == FDiv(c.r0_quote, c.grid.p0)

\* 1e-12
R_ONE_TOL == Mk(1, 1, 5^12, -12, 0)

s_n_closed(c, n) ==
    LET rr == r(c)
    IN  IF FLt(FAbs(FSub(rr, One)), R_ONE_TOL)
        THEN FMul(delta_x0(c), I64ToF(n))
        ELSE FDiv(FMul(delta_x0(c), FSub(One, FPowi(rr, AsI32(n)))),
                  FSub(One, rr))

\* The inverse solve by the linear-limit formula in every case.
solve_r0_linear_limit(c, target_s, n) ==
    FMul(FDiv(target_s, I64ToF(n)), c.grid.p0)

solve_r0_from_supply(c, target_s, n) ==
    LET rr == r(c)
    IN  IF FLt(FAbs(FSub(rr, One)), R_ONE_TOL)
        THEN FMul(FDiv(target_s, I64ToF(n)), c.grid.p0)
        ELSE LET denom == FSub(One, FPowi(rr, AsI32(n)))
                 a == FDiv(FMul(target_s, FSub(One, rr)), denom)
             IN  FMul(a, c.grid.p0)

\* The allocation of bin 0 taken for every bin.
geometric_delta_x_flat(c, i) == delta_x0(c)

geometric_delta_x_of_bin(c, i) == FMul(delta_x0(c), FPowi(r(c), AsI32(i)))

(***************************************************************************)
(* curves.rs: the logistic curve.  S(p) = s_mid - ln(num/den)/k is kept as *)
(* the argument of its logarithm: num/den itself between the two clamps,   *)
(* 10^12 - 1 at the lower clamp (p <= p_min + eps) and 1/(10^12 - 1) at    *)
(* the upper clamp, where eps = (p_max - p_min) * 1e-12.  A difference of  *)
(* two S values is then (ln(a) - ln(b))/k, whose sign is exact.            *)
(***************************************************************************)
Panic == [k |-> "panic"]

\* floor(log2(1e-12))
LG_CLAMP_EPS == -40

\* TRUE when the positive finite t is at most 1e-12.
AtMostClampEps(t) ==
    LET lg == Lg(t.n, t.d) + t.e
    IN  IF lg > LG_CLAMP_EPS THEN FALSE
        ELSE IF lg < LG_CLAMP_EPS - 1 THEN TRUE
        ELSE Unrepresentable

LnArgLow == [big |-> 1, v |-> One]
LnArgHigh == [big |-> -1, v |-> One]

\* -1, 0, 1 as the logarithm argument a is below, equal to or above b.
LnArgCmp(a, b) ==
    IF a.big # b.big THEN Sign(a.big - b.big)
    ELSE IF a.big # 0 THEN 0
    ELSE Cmp(a.v, b.v)

s_of_p(c, p) ==
    LET w == FSub(c.p_max, c.p_min)
    IN  IF ~(IsFinite(c.p_min) /\ IsFinite(c.p_max) /\ IsFinite(c.s_mid)
             /\ IsFinite(c.k) /\ ~IsZero(c.k))
        THEN Unrepresentable
        ELSE IF ~FGe(w, Zero) THEN Panic
        ELSE IF IsZero(w) THEN NaN
        ELSE IF IsNaN(p) THEN NaN
        ELSE LET below == FDiv(FSub(p, c.p_min), w)
                 above == FDiv(FSub(c.p_max, p), w)
                 arg == IF FLe(below, Zero) \/ AtMostClampEps(below)
                        THEN LnArgLow
                        ELSE IF FLe(above, Zero) \/ AtMostClampEps(above)
                        THEN LnArgHigh
                        ELSE [big |-> 0, v |-> FDiv(FSub(c.p_max, p),
                                                    FSub(p, c.p_min))]
             IN  [k |-> "ln", s_mid |-> c.s_mid, arg |-> arg, kk |-> c.k]

s_i(c, i) == s_of_p(c, grid_price_of_bin(c.grid, i))

\* s_ip1 - s_i
SDiff(s_ip1, ss_i) ==
    IF s_ip1 = Panic \/ ss_i = Panic THEN Panic
    ELSE IF s_ip1 = NaN \/ ss_i = NaN THEN NaN
    ELSE LET sg == LnArgCmp(ss_i.arg, s_ip1.arg) * ss_i.kk.s
         IN  IF sg = 0 THEN Zero
             ELSE [k |-> "lndiff", s |-> sg, a |-> ss_i.arg, b |-> s_ip1.arg,
                   kk |-> ss_i.kk]

\* The difference left as it is.
KeepSign(d) == d

\* `d.max(0.0)`: a NaN operand is ignored.
MaxZero(d) ==
    IF d = Panic THEN Panic
    ELSE IF d = NaN THEN Zero
    ELSE IF d.s <= 0 THEN Zero
    ELSE d

\* `x + 1` as a build without overflow checks computes it: i64::MAX wraps
\* to i64::MIN.
I64Inc(x) ==
    IF x = I64_MAX THEN I64_MIN
    ELSE IF x.lo = -1 THEN [hi |-> x.hi + 1, lo |-> 0]
    ELSE IF x.lo = 2147483647 THEN [hi |-> x.hi, lo |-> -2147483647 - 1]
    ELSE [x EXCEPT !.lo = @ + 1]

logistic_delta_x_of_bin(c, i) ==
    IF I64Cmp(I64Inc(i), c.bins) >= 0 THEN Zero
    ELSE MaxZero(SDiff(s_i(c, I64Inc(i)), s_i(c, i)))

\* delta_x_of_bin as either build computes it: with overflow checks (the
\* debug profile) `i + 1` panics at i64::MAX, without them it wraps.
logistic_delta_x_of_bin_built(c, i, overflow_checks) ==
    IF overflow_checks /\ i = I64_MAX THEN Panic
    ELSE logistic_delta_x_of_bin(c, i)

(***************************************************************************)
(* main.rs: compute_bins_from_end_price.  ceil(ln(ratio)/ln(q)) is the     *)
(* exact ceiling of the logarithm of ratio to base q: for q > 1 the least  *)
(* n with q^n >= ratio.                                                    *)
(***************************************************************************)
\* The least n >= from with qq^n >= rr, for qq > 1.
RECURSIVE CeilLogFrom(_, _, _)
CeilLogFrom(qq, rr, from) ==
    IF FGe(FPowi(qq, from), rr) THEN from ELSE CeilLogFrom(qq, rr, from + 1)

\* ceil(a / b) for integers a >= 0, b > 0.
CeilDiv(a, b) == (a + b - 1) \div b

\* ceil(log(rr)/log(qq)) `as i64` for qq = 2^(f/LogDen) with 0 < f < LogDen
\* and rr = 2^(e + g/LogDen) > 1: the ceiling of (e * LogDen + g) / f at
\* the width of an i64.
CeilLogPow2(qq, rr) ==
    IF qq.f = 1
    THEN LET m == rr.e % 1024
         IN  [hi |-> rr.e \div 1024,
              lo |-> IF m < 512 THEN m * LogDen + rr.f
                     ELSE (m - 1024) * LogDen + rr.f]
    ELSE IF rr.e < 512 THEN I64(CeilDiv(rr.e * LogDen + rr.f, qq.f))
    ELSE Unrepresentable

\* (ratio.ln() / q.ln()).ceil() as i64, the cast saturating and NaN -> 0.
CeilLogAsI64(qq, ratio) ==
    IF IsNaN(qq) \/ qq.s < 0 \/ ratio.s < 0 THEN I64(0)
    ELSE IF IsZero(qq) \/ IsInf(qq) THEN I64(0)
    ELSE IF IsZero(ratio)
    THEN (IF FLt(qq, One) THEN I64_MAX ELSE I64_MIN)
    ELSE IF qq = One
    THEN (IF FGt(ratio, One) THEN I64_MAX
          ELSE IF ratio = One THEN I64(0) ELSE I64_MIN)
    ELSE LET up == FGt(qq, One)
             qx == IF up THEN qq ELSE FRecip(qq)
             rx == IF up THEN ratio ELSE FRecip(ratio)
         IN  IF FLe(rx, One) THEN I64(0)
             ELSE IF qx.f # 0
             THEN (IF qx.e = 0 /\ rx.n = 1 /\ rx.d = 1
                   THEN CeilLogPow2(qx, rx) ELSE Unrepresentable)
             ELSE IF rx.f # 0 THEN Unrepresentable
             ELSE I64(CeilLogFrom(qx, rx, 1))

compute_bins_from_end_price(grid, end_price) ==
    LET qq    == q(grid)
        ratio == FDiv(end_price, grid.p0)
    IN  IF ~IsFinite(ratio) THEN Panic
        ELSE I64Max(CeilLogAsI64(qq, ratio), I64(1))

(***************************************************************************)
(* verifier.rs: verify_geometric.                                          *)
(***************************************************************************)
\* The allocation test taken non-strictly.
NonPositiveAllocation(dx) == FLe(dx, Zero)

\* The test that makes the verifier give up at a bin: `dx < 0.0`.
NegativeAllocation(dx) == FLt(dx, Zero)

\* The price test taken strictly.
PriceBelow(p, prev_px) == FLt(p, prev_px)

\* The test that clears monotone_ok at a bin: `p <= prev_px`.
PriceNotAbove(p, prev_px) == FLe(p, prev_px)

\* The number of passes of `for i in 0..bins`.
Passes(bins) ==
    IF bins.hi < 0 THEN 0
    ELSE IF FitsI32(bins) THEN bins.lo
    ELSE Unrepresentable

VerifyStart ==
    [s_sum |-> Zero, comp |-> Zero, prev_px |-> Inf(-1), monotone_ok |-> TRUE,
     err |-> -1]

\* One pass of the loop body at bin i, dx and p being the allocation and
\* the price of the bin.
VerifyBin(st, i, dx, p) ==
    LET t == FAdd(st.s_sum, dx)
    IN  IF NegativeAllocation(dx) THEN [st EXCEPT !.err = i]
        ELSE [s_sum |-> t,
              comp |-> IF FGe(FAbs(st.s_sum), FAbs(dx))
                       THEN FAdd(st.comp, FAdd(FSub(st.s_sum, t), dx))
                       ELSE FAdd(st.comp, FAdd(FSub(dx, t), st.s_sum)),
              prev_px |-> p,
              monotone_ok |-> st.monotone_ok /\ ~PriceNotAbove(p, st.prev_px),
              err |-> -1]

\* Each value below is bound once it is evaluated, as a local of the loop is.
VerifyStep(c, i, st) ==
    CHOOSE res \in {VerifyBin(st, i, dx, p) :
                       dx \in {geometric_delta_x_of_bin(c, I64(i))},
                       p \in {grid_price_of_bin(c.grid, I64(i))}} : TRUE

\* The passes i..n-1 of the loop from state st, the passes after a failed
\* one skipped; the range is walked in halves to keep the evaluation
\* shallow.
RECURSIVE VerifyLoop(_, _, _, _)
VerifyLoop(c, i, n, st) ==
    IF i >= n \/ st.err >= 0 THEN st
    ELSE IF n = i + 1 THEN VerifyStep(c, i, st)
    ELSE CHOOSE res \in
           {CHOOSE r2 \in {VerifyLoop(c, mid, n, half) :
                              half \in {VerifyLoop(c, i, mid, st)}} : TRUE :
               mid \in {i + ((n - i) \div 2)}} : TRUE

\* What verify_geometric returns once its loop has ended in state st.
VerifyReport(c, bins, st) ==
    IF st.err >= 0 THEN [ok |-> FALSE, err_bin |-> st.err]
    ELSE LET s_sum    == FAdd(st.s_sum, st.comp)
             s_closed == s_n_closed(c, bins)
             rel == IF FGt(FAbs(s_closed), Zero)
                    THEN FDiv(FAbs(FSub(s_sum, s_closed)), FAbs(s_closed))
                    ELSE Zero
         IN  [ok |-> TRUE, bins |-> bins, supply_sum |-> s_sum,
              supply_closed |-> s_closed, rel_err_supply |-> rel,
              monotone_ok |-> st.monotone_ok]

verify_geometric(c, bins) ==
    CHOOSE rep \in
      {CHOOSE r2 \in {VerifyReport(cc, bins, st) :
                         st \in {VerifyLoop(cc, 0, n, VerifyStart)}} : TRUE :
          cc \in {c}, n \in {Passes(bins)}} : TRUE

(***************************************************************************)
(* main.rs: the command-line run.  An optional argument is a record with   *)
(* the flag `some`; errors are named by the kind the run ends with.        *)
(***************************************************************************)
NoneOpt == [some |-> FALSE]
Some(v) == [some |-> TRUE, v |-> v]

\* `(lo..=hi).contains(&x)` and `(lo..hi).contains(&x)`
InClosed(x, lo, hi) == FLe(lo, x) /\ FLe(x, hi)
InHalfOpen(x, lo, hi) == FLe(lo, x) /\ FLt(x, hi)

\* The validation without its price-guard test.
validate_inputs_unguarded(args, grid) ==
    IF ~IsFinite(grid.p0) \/ FLe(grid.p0, Zero)
    THEN "InvalidGridParameter"
    ELSE IF ~IsFinite(grid.bin_step_bps) \/ FLe(grid.bin_step_bps, Zero)
    THEN "InvalidGridParameter"
    ELSE IF args.bins.some /\ I64Cmp(args.bins.v, I64(1)) < 0
    THEN "InvalidBinCount"
    ELSE IF ~InClosed(args.max_fee_rate, Zero, One)
    THEN "InvalidFeeCap"
    ELSE "ok"

validate_inputs(args, grid) ==
    IF ~IsFinite(grid.p0) \/ FLe(grid.p0, Zero)
    THEN "InvalidGridParameter"
    ELSE IF ~IsFinite(grid.bin_step_bps) \/ FLe(grid.bin_step_bps, Zero)
    THEN "InvalidGridParameter"
    ELSE IF args.bins.some /\ I64Cmp(args.bins.v, I64(1)) < 0
    THEN "InvalidBinCount"
    ELSE IF ~InClosed(args.max_fee_rate, Zero, One)
    THEN "InvalidFeeCap"
    ELSE IF args.price_guard_bps.some
            /\ ~InHalfOpen(args.price_guard_bps.v, Zero, FromInt(10000))
    THEN "InvalidPriceGuard"
    ELSE "ok"

DEFAULT_BINS == 500

\* The bin count resolved with the end price checked before the supplied
\* count is looked at.
resolve_bins_end_price_first(args, grid) ==
    IF args.end_price.some /\ FLe(args.end_price.v, grid.p0)
    THEN [st |-> "EndPriceNotAbove"]
    ELSE IF args.bins.some THEN [st |-> "ok", n |-> args.bins.v]
    ELSE IF args.end_price.some
    THEN LET n == compute_bins_from_end_price(grid, args.end_price.v)
         IN  IF n = Panic THEN [st |-> "panic"] ELSE [st |-> "ok", n |-> n]
    ELSE [st |-> "ok", n |-> I64(DEFAULT_BINS)]

\* The bin count of a run: supplied, derived from the end price, or the
\* default.
resolve_bins(args, grid) ==
    IF args.bins.some THEN [st |-> "ok", n |-> args.bins.v]
    ELSE IF args.end_price.some
    THEN IF FLe(args.end_price.v, grid.p0)
         THEN [st |-> "EndPriceNotAbove"]
         ELSE LET n == compute_bins_from_end_price(grid, args.end_price.v)
              IN  IF n = Panic THEN [st |-> "panic"]
                  ELSE [st |-> "ok", n |-> n]
    ELSE [st |-> "ok", n |-> I64(DEFAULT_BINS)]

\* `bins / 2` and `bins.saturating_sub(1)` for a bin count in the i32
\* range.
I64Half(x) ==
    IF FitsI32(x) /\ x.lo >= 0 THEN I64(x.lo \div 2) ELSE Unrepresentable
I64SatDec(x) ==
    IF FitsI32(x) /\ x.lo > -2147483647 THEN I64(x.lo - 1)
    ELSE Unrepresentable

\* The price-guard lines of the schedule header: for the first, the middle
\* and the last bin, the price and the two minimum prices at the impact
\* given; no line without a price guard.
price_guard_lines(grid, bins, price_guard_bps) ==
    IF ~price_guard_bps.some THEN <<>>
    ELSE LET line(b) ==
               LET pr == grid_price_of_bin(grid, b)
               IN  [bin |-> b, price |-> pr, impact_bps |-> price_guard_bps.v,
                    min_x_for_y |->
                        min_price_sell_x_for_y(pr, price_guard_bps.v),
                    min_y_for_x |->
                        min_price_sell_y_for_x(pr, price_guard_bps.v)]
         IN  <<line(I64(0)), line(I64Half(bins)), line(I64SatDec(bins))>>

\* `x.clamp(lo, hi)` for lo <= hi.
FClamp(x, lo, hi) ==
    IF FLt(x, lo) THEN lo ELSE IF FGt(x, hi) THEN hi ELSE x

\* The curve built with r0 as given, solved from the target supply only
\* when r0 is absent.
build_geometric_r0_as_given(args, grid, bins) ==
    LET c0 == [kind |-> "Geometric", grid |-> grid,
               theta |-> FClamp(args.theta, FromInt(-2), FromInt(2)),
               r0_quote |-> IF args.r0.some THEN args.r0.v ELSE Zero]
    IN  IF args.r0.some THEN [st |-> "ok", c |-> c0]
        ELSE IF ~args.target_supply.some
        THEN [st |-> "MissingCurveParameter"]
        ELSE [st |-> "ok",
              c |-> [c0 EXCEPT !.r0_quote =
                       solve_r0_from_supply(c0, args.target_supply.v, bins)]]

\* The curve run_geometric builds before it verifies.
build_geometric(args, grid, bins) ==
    LET c0 == [kind |-> "Geometric", grid |-> grid,
               theta |-> FClamp(args.theta, FromInt(-2), FromInt(2)),
               r0_quote |-> IF args.r0.some THEN args.r0.v ELSE Zero]
    IN  IF FLe(c0.r0_quote, Zero)
        THEN IF ~args.target_supply.some
             THEN [st |-> "MissingCurveParameter"]
             ELSE [st |-> "ok",
                   c |-> [c0 EXCEPT !.r0_quote =
                            solve_r0_from_supply(c0, args.target_supply.v,
                                                 bins)]]
        ELSE [st |-> "ok", c |-> c0]

\* The parameter checks run_logistic makes first.
logistic_params(args, grid) ==
    IF ~args.p_max.some THEN "MissingCurveParameter"
    ELSE IF ~(FLt(args.p_min, grid.p0) /\ FLt(grid.p0, args.p_max.v))
    THEN "OrderingViolation"
    ELSE "ok"

\* The step that follows building the curve: the verifier is skipped.
AfterCurveBuiltUnverified(mode) == "write"

\* The step that follows building the curve.
AfterCurveBuilt(mode) == IF mode = "geometric" THEN "verify" ELSE "write"

\* One addition to a Neumaier compensated sum: the running total and the
\* compensation term after adding x.
neumaier_add(cum, cmp, x) ==
    CHOOSE res \in
      {[cum |-> t,
        cmp |-> IF FGe(FAbs(cum), FAbs(x))
                THEN FAdd(cmp, FAdd(FSub(cum, t), x))
                ELSE FAdd(cmp, FAdd(FSub(x, t), cum))] :
          t \in {FAdd(cum, x)}} : TRUE

\* The data-row loop of write_schedule_csv_geometric before its first pass:
\* the four accumulators and the rows serialized so far.
WriterStart ==
    [s_cum |-> Zero, s_cmp |-> Zero, r_cum |-> Zero, r_cmp |-> Zero,
     rows |-> <<>>]

\* The revenue of a bin taken as its price.
revenue_bin_price_only(p, dx) == p

\* r_bin = p * dx
revenue_bin(p, dx) == FMul(p, dx)

\* One pass of the loop at bin i with price p and allocation dx: r_bin and
\* the two accumulator updates are evaluated once each.
WriterBin(st, i, p, dx, fee) ==
    CHOOSE res \in
      {[s_cum |-> s.cum, s_cmp |-> s.cmp, r_cum |-> rv.cum, r_cmp |-> rv.cmp,
        rows |-> Append(st.rows,
                   [bin |-> i, price |-> p, delta_x |-> dx,
                    supply_cum |-> FAdd(s.cum, s.cmp),
                    revenue_bin |-> r_bin,
                    revenue_cum |-> FAdd(rv.cum, rv.cmp),
                    fee_base |-> fee.b, fee_var |-> fee.v,
                    fee_total |-> fee.tot])] :
          r_bin \in {revenue_bin(p, dx)},
          s \in {neumaier_add(st.s_cum, st.s_cmp, dx)},
          rv \in {neumaier_add(st.r_cum, st.r_cmp, revenue_bin(p, dx))}} : TRUE

\* The passes i..n-1 of the loop from state st, the locals of a pass bound
\* once each.
RECURSIVE WriterLoop(_, _, _, _, _)
WriterLoop(c, i, n, st, fee) ==
    IF i >= n THEN st
    ELSE CHOOSE res \in
           {WriterLoop(c, i + 1, n, nxt, fee) :
              nxt \in {WriterBin(st, I64(i), p, dx, fee) :
                         p \in {grid_price_of_bin(c.grid, I64(i))},
                         dx \in {geometric_delta_x_of_bin(c, I64(i))}}} : TRUE

\* The data rows write_schedule_csv_geometric serializes for curve c, fee
\* schedule fp, volatility accumulator va and `bins` bins.
schedule_rows(c, fp, va, bins) ==
    LET n == IF bins.hi < 0 THEN 0
             ELSE IF FitsI32(bins) THEN bins.lo ELSE Unrepresentable
    IN  CHOOSE rows \in
          {WriterLoop(c, 0, n, WriterStart, fee).rows :
             fee \in {[b |-> base_fee_rate(fp),
                       v |-> variable_fee_rate(fp, va),
                       tot |-> total_fee_rate(fp, va)]}} : TRUE

(***************************************************************************)
(* The fee schedule under query: a schedule is built once, then           *)
(* base_fee_rate, variable_fee_rate and total_fee_rate are called on it.   *)
(***************************************************************************)
BaseFactors == {Zero, Frac(1, 2), FromInt(1), FromInt(50)}
BinSteps == {FromInt(1), FromInt(10), FromInt(100)}
VarControls == {Zero, Frac(1, 2), FromInt(1), FromInt(400)}
MaxFeeRates == {Frac(-1, 10), Zero, Frac(1, 1000), Frac(1, 10), Frac(1, 2),
                FromInt(1)}
VolAccums == {Zero, FromInt(1), FromInt(10), FromInt(50), FromInt(1000),
              Inf(1)}

FeeParamSet ==
    [base_factor : BaseFactors, bin_step_bps : BinSteps,
     variable_fee_control : VarControls, max_fee_rate : MaxFeeRates]

InitFee ==
    /\ fees \in FeeParamSet
    /\ feeRes = None
    /\ policy = Idle /\ polRes = Idle
    /\ curve = Idle /\ curveRes = Idle /\ run = Idle

BaseFeeRate ==
    /\ feeRes' = [op |-> "base_fee_rate", va |-> Zero, v |-> base_fee_rate(fees)]
    /\ UNCHANGED <<fees, policy, polRes, curve, curveRes, run>>

VariableFeeRate ==
    \E va \in VolAccums :
        /\ feeRes' = [op |-> "variable_fee_rate", va |-> va,
                      v |-> variable_fee_rate(fees, va)]
        /\ UNCHANGED <<fees, policy, polRes, curve, curveRes, run>>

TotalFeeRate ==
    \E va \in VolAccums :
        /\ feeRes' = [op |-> "total_fee_rate", va |-> va,
                      v |-> total_fee_rate(fees, va)]
        /\ UNCHANGED <<fees, policy, polRes, curve, curveRes, run>>

NextFee == BaseFeeRate \/ VariableFeeRate \/ TotalFeeRate

SpecFee == InitFee /\ [][NextFee]_vars

\* The schedules the fee claims are about.
FeeScheduleValid ==
    /\ FGe(fees.base_factor, Zero)
    /\ FGe(fees.variable_fee_control, Zero)
    /\ FGt(fees.bin_step_bps, Zero)
    /\ FGt(fees.max_fee_rate, Zero)
    /\ FLe(fees.max_fee_rate, One)

\* C1: for a schedule with base_factor >= 0, variable_fee_control >= 0,
\* bin_step_bps > 0 and max_fee_rate in (0, 1], and va >= 0, the total fee
\* returned never exceeds max_fee_rate, and it is the smaller of
\* base fee + variable fee and the cap clamped to be non-negative.
C1_TotalFeeCapped ==
    (feeRes.op = "total_fee_rate" /\ FeeScheduleValid /\ FGe(feeRes.va, Zero))
    => /\ FLe(feeRes.v, fees.max_fee_rate)
       /\ feeRes.v = FMin(FAdd(base_fee_rate(fees),
                               variable_fee_rate(fees, feeRes.va)),
                          FMax(fees.max_fee_rate, Zero))

\* C1 witness: a valid schedule whose uncapped fee exceeds the cap was queried.
C1_Witness ==
    /\ feeRes.op = "total_fee_rate" /\ FeeScheduleValid /\ FGe(feeRes.va, Zero)
    /\ FGt(FAdd(base_fee_rate(fees), variable_fee_rate(fees, feeRes.va)),
           fees.max_fee_rate)
    /\ feeRes.v = fees.max_fee_rate

(***************************************************************************)
(* The launch-phase policy under query: a policy is built once (its        *)
(* allowlist filled), then tau and is_allowed are called on it.            *)
(***************************************************************************)
\* Addresses: "a1", "A1", "a1 ", " a1", "b" and the empty string.
Addresses ==
    {<<"a", "1">>, <<"A", "1">>, <<"a", "1", " ">>, <<" ", "a", "1">>,
     <<"b">>, <<>>}

TauConfigs ==
    {<<FromInt(50), FromInt(3), FromInt(30)>>,
     <<FromInt(50), FromInt(5), FromInt(120)>>,
     <<FromInt(3), FromInt(50), FromInt(30)>>,
     <<FromInt(10), FromInt(10), FromInt(30)>>,
     <<FromInt(50), FromInt(3), Zero>>,
     <<FromInt(50), FromInt(3), FromInt(-10)>>,
     <<FromInt(50), FromInt(3), Inf(1)>>,
     <<FromInt(50), FromInt(3), NaN>>,
     <<FNeg(Pow2(1023, 0)), Pow2(1023, 0), FromInt(30)>>}

ElapsedTimes ==
    {FromInt(-20), FromInt(-5), Zero, FromInt(10), FromInt(15), FromInt(30),
     FromInt(45), FromInt(60), FromInt(120), Inf(1), NaN}

InitPolicy ==
    /\ \E al \in SUBSET Addresses, c \in TauConfigs :
          policy = [allowlist |-> al, tau_start_pct |-> c[1],
                    tau_end_pct |-> c[2], ramp_secs |-> c[3]]
    /\ polRes = None
    /\ fees = Idle /\ feeRes = Idle
    /\ curve = Idle /\ curveRes = Idle /\ run = Idle

Tau ==
    \E t \in ElapsedTimes :
        /\ polRes' = [op |-> "tau", t |-> t, addr |-> <<>>, allowed |-> FALSE,
                      v |-> tau(policy, t)]
        /\ UNCHANGED <<fees, feeRes, policy, curve, curveRes, run>>

IsAllowed ==
    \E a \in Addresses :
        /\ polRes' = [op |-> "is_allowed", t |-> Zero, addr |-> a,
                      allowed |-> is_allowed(policy, a), v |-> Zero]
        /\ UNCHANGED <<fees, feeRes, policy, curve, curveRes, run>>

NextPolicy == Tau \/ IsAllowed

SpecPolicy == InitPolicy /\ [][NextPolicy]_vars

\* C2: tau(t) is max(tau_start, tau_end) for t <= 0, else tau_end for
\* t >= ramp_secs, else tau_start + (t / ramp_secs) * (tau_end - tau_start);
\* with tau_start = 50, tau_end = 3, ramp_secs = 30: tau(0) = 50,
\* tau(15) = 26.5, tau(30) = 3, tau(45) = 3.
C2_TauThreeBranch ==
    polRes.op = "tau" =>
    LET t == polRes.t
        a == policy.tau_start_pct
        b == policy.tau_end_pct
        T == policy.ramp_secs
    IN  /\ FLe(t, Zero) => polRes.v = FMax(a, b)
        /\ (FGt(t, Zero) /\ FGe(t, T)) => polRes.v = b
        /\ (FGt(t, Zero) /\ FLt(t, T)) =>
               polRes.v = FAdd(a, FMul(FDiv(t, T), FSub(b, a)))
        /\ (a = FromInt(50) /\ b = FromInt(3) /\ T = FromInt(30)) =>
               /\ t = Zero => polRes.v = FromInt(50)
               /\ t = FromInt(15) => polRes.v = Frac(53, 2)
               /\ t = FromInt(30) => polRes.v = FromInt(3)
               /\ t = FromInt(45) => polRes.v = FromInt(3)

\* C2 witness: the midpoint of the 50 -> 3 ramp over 30 s was queried.
C2_Witness ==
    /\ polRes.op = "tau" /\ polRes.t = FromInt(15)
    /\ policy.tau_start_pct = FromInt(50) /\ policy.tau_end_pct = FromInt(3)
    /\ policy.ramp_secs = FromInt(30)
    /\ polRes.v = Frac(53, 2)

\* The letters of an address in lower case, and an address without its
\* leading and trailing blanks.
LowerCase(a) ==
    [i \in 1..Len(a) |->
        IF a[i] = "A" THEN "a" ELSE IF a[i] = "B" THEN "b" ELSE a[i]]
RECURSIVE Trimmed(_)
Trimmed(a) ==
    IF a = <<>> THEN a
    ELSE IF Head(a) = " " THEN Trimmed(Tail(a))
    ELSE IF a[Len(a)] = " " THEN Trimmed(SubSeq(a, 1, Len(a) - 1))
    ELSE a

\* The answer of the last is_allowed query is membership of the queried
\* address in the allowlist, whatever near-matches the allowlist holds.
MembershipAnswer ==
    polRes.op = "is_allowed" =>
        /\ polRes.allowed = (polRes.addr \in policy.allowlist)
        /\ (polRes.addr \notin policy.allowlist /\
            \/ \E m \in policy.allowlist :
                   \/ LowerCase(m) = LowerCase(polRes.addr)
                   \/ Trimmed(m) = Trimmed(polRes.addr)
            \/ polRes.addr = <<>>)
           => polRes.allowed = FALSE

\* C3: is_allowed(addr) is true exactly when addr is an element of the
\* allowlist: an address that is not itself an element is not exempt for
\* matching an element up to letter case or surrounding blanks, nor for
\* being empty; the answer is a function of the allowlist and the address
\* alone (no elapsed time enters it), and no query changes the policy.
C3_ExactMembership == []MembershipAnswer /\ [][policy' = policy]_vars

\* C3 witness: "A1" was queried against an allowlist holding "a1" but not
\* "A1", and was refused.
C3_Witness ==
    /\ polRes.op = "is_allowed" /\ polRes.addr = <<"A", "1">>
    /\ <<"a", "1">> \in policy.allowlist
    /\ <<"A", "1">> \notin policy.allowlist
    /\ polRes.allowed = FALSE

(***************************************************************************)
(* The geometric curve under query: a curve is built once and then its     *)
(* prices, allocations and closed form are read and the verifier is run,   *)
(* in any order.                                                           *)
(***************************************************************************)
GeoP0s == {One, Frac(1, 100), Pow2(1020, 0)}
GeoBinSteps == {FromInt(30000), FromInt(12500), FromInt(-20000)}
GeoThetas == {Zero, Frac(1, 2), One}
GeoR0s == {FromInt(-1), Zero, FromInt(8)}
GeoBins == {-1, 0, 1, 2, 3, 5}

GeometricSet ==
    {[kind |-> "Geometric", grid |-> [p0 |-> p, bin_step_bps |-> b],
      theta |-> th, r0_quote |-> r0] :
        p \in GeoP0s, b \in GeoBinSteps, th \in GeoThetas, r0 \in GeoR0s}

InitGeo ==
    /\ curve \in GeometricSet
    /\ curveRes = None
    /\ fees = Idle /\ feeRes = Idle
    /\ policy = Idle /\ polRes = Idle /\ run = Idle

PriceOfBin ==
    \E i \in GeoBins :
        /\ curveRes' = [op |-> "price_of_bin", i |-> i,
                        v |-> grid_price_of_bin(curve.grid, I64(i))]
        /\ UNCHANGED <<fees, feeRes, policy, polRes, curve, run>>

DeltaXOfBin ==
    \E i \in GeoBins :
        /\ curveRes' = [op |-> "delta_x_of_bin", i |-> i,
                        v |-> geometric_delta_x_of_bin(curve, I64(i))]
        /\ UNCHANGED <<fees, feeRes, policy, polRes, curve, run>>

SNClosed ==
    \E n \in GeoBins :
        /\ curveRes' = [op |-> "s_n_closed", i |-> n,
                        v |-> s_n_closed(curve, I64(n))]
        /\ UNCHANGED <<fees, feeRes, policy, polRes, curve, run>>

VerifyGeometric ==
    \E n \in GeoBins :
        /\ curveRes' = [op |-> "verify_geometric", i |-> n,
                        v |-> verify_geometric(curve, I64(n))]
        /\ UNCHANGED <<fees, feeRes, policy, polRes, curve, run>>

NextGeo == PriceOfBin \/ DeltaXOfBin \/ SNClosed \/ VerifyGeometric

SpecGeo == InitGeo /\ [][NextGeo]_vars

\* The schedule writer under query: a curve is built once and its schedule
\* is written for a bin count, a fee schedule and an accumulator value.
\* The fee schedules and accumulator values the schedule is written with; the
\* schedule's bin step is the grid's.
WriterFeeParams ==
    {[bin_step_bps |-> curve.grid.bin_step_bps, base_factor |-> One,
      variable_fee_control |-> Frac(1, 2), max_fee_rate |-> m] :
        m \in {Frac(1, 10), FromInt(100)}}
WriterVolAccums == {One}

WriteScheduleRows ==
    \E n \in GeoBins, fp \in WriterFeeParams, va \in WriterVolAccums :
        /\ curveRes' = [op |-> "write_schedule_csv", i |-> n,
                        v |-> schedule_rows(curve, fp, va, I64(n))]
        /\ UNCHANGED <<fees, feeRes, policy, polRes, curve, run>>

NextWrite == WriteScheduleRows

SpecWrite == InitGeo /\ [][NextWrite]_vars

\* The allocation and the price of bin i of the curve under query.
DxAt(i) == geometric_delta_x_of_bin(curve, I64(i))
PxAt(i) == grid_price_of_bin(curve.grid, I64(i))

\* C4: verify_geometric(curve, bins) returns a validation error if and only
\* if delta_x_of_bin(i) < 0 for some i in [0, bins); otherwise it returns a
\* Report, whatever the relative error and whether or not the prices are
\* monotone.
C4_ErrorIffNegativeAllocation ==
    curveRes.op = "verify_geometric"
    => /\ (~curveRes.v.ok) <=> (\E i \in 0..(curveRes.i - 1) : FLt(DxAt(i), Zero))
       /\ ~curveRes.v.ok
          => /\ FLt(DxAt(curveRes.v.err_bin), Zero)
             /\ \A j \in 0..(curveRes.v.err_bin - 1) : ~FLt(DxAt(j), Zero)
       /\ curveRes.v.ok
          => /\ curveRes.v.bins = I64(curveRes.i)
             /\ curveRes.v.monotone_ok \in BOOLEAN

\* A verification of a curve whose allocations are negative from bin 1 on
\* only, and which was therefore rejected at bin 1.
C4_Witness ==
    /\ curveRes.op = "verify_geometric"
    /\ ~curveRes.v.ok
    /\ curveRes.v.err_bin = 1

\* The grids the price claims are about: p0 > 0 and bin_step_bps > 0.
GridValid ==
    /\ FGt(curve.grid.p0, Zero)
    /\ FGt(curve.grid.bin_step_bps, Zero)

\* A verification of n >= 1 bins of such a grid that returned a Report.
VerifiedValidGrid ==
    /\ curveRes.op = "verify_geometric"
    /\ GridValid
    /\ curveRes.i >= 1
    /\ curveRes.v.ok

LogiP0s == {One, FromInt(2)}
LogiBinSteps == {FromInt(30000), FromInt(10000), FromInt(-5000)}
LogiPMins == {Frac(1, 4), Frac(1, 2)}
LogiPMaxs == {FromInt(4), FromInt(64), Frac(1, 8)}
LogiKs == {Frac(1, 2), FromInt(-1)}
LogiSMids == {Zero, FromInt(10)}
LogiBins == {0, 1, 2, 5}
LogiIndices == {-1, 0, 1, 2, 3, 4}

LogisticSet ==
    {[kind |-> "LogisticS", grid |-> [p0 |-> p, bin_step_bps |-> b],
      p_min |-> lo, p_max |-> hi, k |-> kk, s_mid |-> sm, bins |-> I64(n)] :
        p \in LogiP0s, b \in LogiBinSteps, lo \in LogiPMins,
        hi \in LogiPMaxs, kk \in LogiKs, sm \in LogiSMids, n \in LogiBins}

InitLogi ==
    /\ curve \in LogisticSet
    /\ curveRes = None
    /\ fees = Idle /\ feeRes = Idle
    /\ policy = Idle /\ polRes = Idle /\ run = Idle

LogisticPriceOfBin ==
    \E i \in LogiIndices :
        /\ curveRes' = [op |-> "price_of_bin", i |-> i,
                        v |-> grid_price_of_bin(curve.grid, I64(i))]
        /\ UNCHANGED <<fees, feeRes, policy, polRes, curve, run>>

LogisticDeltaXOfBin ==
    \E i \in LogiIndices :
        /\ curveRes' = [op |-> "delta_x_of_bin", i |-> i,
                        v |-> logistic_delta_x_of_bin(curve, I64(i))]
        /\ UNCHANGED <<fees, feeRes, policy, polRes, curve, run>>

\* Indices at the upper end of the i64 domain: i64::MAX, i64::MAX - 1 and
\* 2^31 - 1.
LogiWideIndices ==
    {I64_MAX, [hi |-> 2147483647, lo |-> -2], [hi |-> 0, lo |-> 2147483647]}

LogisticDeltaXOfBinWide ==
    \E i \in LogiWideIndices, overflow_checks \in BOOLEAN :
        /\ curveRes' = [op |-> "delta_x_of_bin_wide", i |-> i,
                        v |-> logistic_delta_x_of_bin_built(curve, i,
                                                            overflow_checks)]
        /\ UNCHANGED <<fees, feeRes, policy, polRes, curve, run>>

NextLogi ==
    LogisticPriceOfBin \/ LogisticDeltaXOfBin \/ LogisticDeltaXOfBinWide

SpecLogi == InitLogi /\ [][NextLogi]_vars

\* The logistic curves the allocation claim is about.
LogisticValid ==
    /\ FLt(curve.p_min, curve.grid.p0)
    /\ FLt(curve.grid.p0, curve.p_max)
    /\ FGt(curve.k, Zero)
    /\ I64Cmp(curve.bins, I64(2)) >= 0

\* TRUE for an allocation that is a number >= 0.
NonNegative(v) ==
    \/ v.k = "lndiff" /\ v.s > 0
    \/ v.k \in {"fin", "inf"} /\ FGe(v, Zero)

\* C7: for every LogisticS curve with p_min < p0 < p_max, k > 0 and
\* bins >= 2, delta_x_of_bin(i) >= 0 for every i with 0 <= i < bins - 1.
C7_LogisticNonNegative ==
    (/\ curveRes.op = "delta_x_of_bin"
     /\ LogisticValid
     /\ curveRes.i >= 0
     /\ I64Cmp(I64(curveRes.i + 1), curve.bins) < 0)
    => NonNegative(curveRes.v)

\* An allocation of such a curve on a falling grid, where S(P_{i+1}) is
\* below S(P_i) and the allocation is zero.
C7_Witness ==
    /\ curveRes.op = "delta_x_of_bin"
    /\ LogisticValid
    /\ curveRes.i >= 0
    /\ I64Cmp(I64(curveRes.i + 1), curve.bins) < 0
    /\ SDiff(s_i(curve, I64(curveRes.i + 1)), s_i(curve, I64(curveRes.i))).s < 0
    /\ curveRes.v = Zero

(***************************************************************************)
(* The bin count under query: a grid is built once; a bin count is derived *)
(* from an end price, and the price of the bin at that count is read.      *)
(* Grids whose step is a power of two to a fractional exponent are paired  *)
(* with starting prices and ratios that are powers of two.                 *)
(***************************************************************************)
RationalGrids ==
    {[p0 |-> p, bin_step_bps |-> b] :
        p \in {One, Frac(1, 100), FromInt(2)},
        b \in {FromInt(30000), FromInt(12500), FromInt(10000)}}
RationalRatios ==
    {Frac(1, 2), One, Frac(3, 2), FromInt(2), FromInt(16), FromInt(100),
     FromInt(1000)}
Pow2Grids ==
    {[p0 |-> p, bin_step_bps |-> BpsOfGrowth(qq)] :
        p \in {One, FromInt(2), Frac(1, 4)},
        qq \in {Pow2(0, 1), Pow2(0, 3), Pow2(0, LogDen \div 2)}}
Pow2Ratios ==
    {Frac(1, 2), One, Pow2(0, 7), FromInt(2), Pow2(3, 7), Pow2(500, 0),
     Pow2(600, 0), Pow2(1000, 5)}

RatiosOf(grid) ==
    IF grid \notin Pow2Grids THEN RationalRatios
    ELSE IF q(grid).f = 1 THEN Pow2Ratios
    ELSE {x \in Pow2Ratios : x.e < 512}

InitBins ==
    /\ curve \in {[kind |-> "Grid", grid |-> gr] :
                      gr \in RationalGrids \cup Pow2Grids}
    /\ curveRes = None
    /\ fees = Idle /\ feeRes = Idle
    /\ policy = Idle /\ polRes = Idle /\ run = Idle

ComputeBinsFromEndPrice ==
    \E ratio \in RatiosOf(curve.grid) :
        LET end_price == FMul(curve.grid.p0, ratio)
        IN  /\ curveRes' = [op |-> "compute_bins_from_end_price",
                            end_price |-> end_price,
                            n |-> compute_bins_from_end_price(curve.grid,
                                                              end_price)]
            /\ UNCHANGED <<fees, feeRes, policy, polRes, curve, run>>

PriceAtDerivedBins ==
    /\ curveRes.op = "compute_bins_from_end_price"
    /\ curveRes.n # Panic
    /\ curveRes' = [op |-> "price_of_bin", end_price |-> curveRes.end_price,
                    n |-> curveRes.n,
                    v |-> grid_price_of_bin(curve.grid, curveRes.n)]
    /\ UNCHANGED <<fees, feeRes, policy, polRes, curve, run>>

NextBins == ComputeBinsFromEndPrice \/ PriceAtDerivedBins

SpecBins == InitBins /\ [][NextBins]_vars

\* The price of the bin at the derived count has been read, for a grid with
\* p0 > 0 and q > 1 and an end price above p0.
DerivedBinsPriced ==
    /\ curveRes.op = "price_of_bin"
    /\ FGt(curve.grid.p0, Zero)
    /\ FGt(q(curve.grid), One)
    /\ FGt(curveRes.end_price, curve.grid.p0)

\* C8: for every p0 > 0, bin_step_bps > 0 and end_price = p0 * ratio with
\* ratio > 1, the bin count n returned by compute_bins_from_end_price
\* satisfies price_of_bin(n) >= end_price.
C8_NoUnderShoot ==
    DerivedBinsPriced => FGe(curveRes.v, curveRes.end_price)

(***************************************************************************)
(* The command-line run: main validates the arguments, loads the           *)
(* allowlist, creates the output directory and hands over to run_geometric *)
(* or run_logistic, which resolve the bin count, build the curve, verify   *)
(* it (geometric mode), write schedule.csv and draw the charts.  The       *)
(* argument sets avoid the default bin count together with a decaying      *)
(* allocation, whose 500-term sums are beyond the integers of the model.   *)
(***************************************************************************)
RunGrids ==
    {[p0 |-> Frac(1, 100), bin_step_bps |-> FromInt(30000)],
     [p0 |-> Zero, bin_step_bps |-> FromInt(30000)],
     [p0 |-> Frac(1, 100), bin_step_bps |-> Zero]}
RunBins == {NoneOpt, Some(I64(0)), Some(I64(3))}
RunEndPrices ==
    {NoneOpt, Some(Frac(1, 200)), Some(Frac(16, 100)), Some(Inf(1))}
RunMaxFeeRates == {Frac(1, 10), FromInt(2)}
RunPriceGuards == {NoneOpt, Some(FromInt(50)), Some(FromInt(10000))}
RunAllowlists == {"none", "missing", "present"}

\* The arguments every mode reads.
CommonArgs ==
    [grid : RunGrids, bins : RunBins, end_price : RunEndPrices,
     max_fee_rate : RunMaxFeeRates, price_guard_bps : RunPriceGuards,
     allowlist_path : RunAllowlists, draw : BOOLEAN]

\* The arguments of the curve, by mode; the others keep their defaults.
GeometricArgs ==
    [mode : {"geometric"}, theta : {One, Frac(1, 2)},
     r0 : {NoneOpt, Some(FromInt(8))},
     target_supply : {NoneOpt, Some(FromInt(1000)), Some(FromInt(-1000))},
     p_min : {Zero}, p_max : {NoneOpt}]
LogisticArgs ==
    [mode : {"logistic"}, theta : {Frac(3, 5)}, r0 : {NoneOpt},
     target_supply : {NoneOpt},
     p_min : {Zero, FromInt(1)}, p_max : {NoneOpt, Some(FromInt(4))}]
RunK == Frac(1, 100000)
OtherModeArgs ==
    [mode : {"linear"}, theta : {Frac(3, 5)}, r0 : {NoneOpt},
     target_supply : {NoneOpt}, p_min : {Zero}, p_max : {NoneOpt}]

RunArgsSet ==
    {[mode |-> m.mode, theta |-> m.theta, r0 |-> m.r0,
      target_supply |-> m.target_supply, p_min |-> m.p_min,
      p_max |-> m.p_max, k |-> RunK, s_mid |-> Zero,
      grid |-> c.grid, bins |-> c.bins,
      end_price |-> c.end_price, max_fee_rate |-> c.max_fee_rate,
      price_guard_bps |-> c.price_guard_bps,
      allowlist_path |-> c.allowlist_path, draw |-> c.draw] :
        m \in GeometricArgs \cup LogisticArgs \cup OtherModeArgs,
        c \in CommonArgs}

\* The default bin count is run with a flat allocation only.
Summable(a) ==
    (a.mode = "geometric" /\ ~a.bins.some /\ ~a.end_price.some)
    => a.theta = One

\* A geometric run of three bins, and the runs that differ from it in one
\* argument that validation reads or in the way the curve's r0 is given.
BaseArgs ==
    [mode |-> "geometric", theta |-> Frac(1, 2), r0 |-> Some(FromInt(8)),
     target_supply |-> NoneOpt, p_min |-> Zero, p_max |-> NoneOpt,
     k |-> RunK, s_mid |-> Zero,
     grid |-> [p0 |-> Frac(1, 100), bin_step_bps |-> FromInt(30000)],
     bins |-> Some(I64(3)), end_price |-> NoneOpt,
     max_fee_rate |-> Frac(1, 10), price_guard_bps |-> NoneOpt,
     allowlist_path |-> "none", draw |-> FALSE]

BoundaryArgsSet ==
    {[BaseArgs EXCEPT !.grid.p0 = x] : x \in {NaN, Inf(1), Frac(-1, 100)}}
    \cup {[BaseArgs EXCEPT !.grid.bin_step_bps = x] :
             x \in {NaN, Inf(1), FromInt(-5000)}}
    \cup {[BaseArgs EXCEPT !.bins = Some(I64(n))] : n \in {-1, 1}}
    \cup {[BaseArgs EXCEPT !.max_fee_rate = x] :
             x \in {NaN, Frac(-1, 10), Zero, One, Inf(1)}}
    \cup {[BaseArgs EXCEPT !.price_guard_bps = Some(x)] :
             x \in {NaN, FromInt(-1), Zero, FromInt(9999), FromInt(20000)}}
    \cup {[BaseArgs EXCEPT !.r0 = x, !.target_supply = t] :
             x \in {NoneOpt, Some(Zero), Some(FromInt(-1)), Some(NaN)},
             t \in {NoneOpt, Some(FromInt(1000))}}

NoCsv == [created |-> FALSE, header |-> FALSE, guards |-> <<>>, rows |-> 0]

InitRun ==
    /\ run \in {[args |-> a, pc |-> "start", err |-> "none",
                  allowlist_read |-> FALSE, dir_created |-> FALSE,
                  bins |-> I64(0), verified |-> FALSE, csv |-> NoCsv,
                  charts |-> FALSE] :
                    a \in {x \in RunArgsSet : Summable(x)} \cup BoundaryArgsSet}
    /\ curve = None /\ curveRes = Idle
    /\ fees = Idle /\ feeRes = Idle
    /\ policy = Idle /\ polRes = Idle

\* The run ends with an error of the kind given.
Fail(kind) == run' = [run EXCEPT !.pc = "failed", !.err = kind]

ValidateInputs ==
    /\ run.pc = "start"
    /\ LET res == validate_inputs(run.args, run.args.grid)
       IN  IF res = "ok" THEN run' = [run EXCEPT !.pc = "validated"]
           ELSE Fail(res)
    /\ UNCHANGED <<fees, feeRes, policy, polRes, curve, curveRes>>

LoadAllowlist ==
    /\ run.pc = "validated"
    /\ run' = [run EXCEPT !.pc = "loaded",
                          !.allowlist_read = (run.args.allowlist_path = "present")]
    /\ UNCHANGED <<fees, feeRes, policy, polRes, curve, curveRes>>

CreateOutDir ==
    /\ run.pc = "loaded"
    /\ run' = [run EXCEPT !.pc = "dispatch", !.dir_created = TRUE]
    /\ UNCHANGED <<fees, feeRes, policy, polRes, curve, curveRes>>

Dispatch ==
    /\ run.pc = "dispatch"
    /\ IF run.args.mode = "geometric" THEN run' = [run EXCEPT !.pc = "geo_bins"]
       ELSE IF run.args.mode = "logistic"
       THEN run' = [run EXCEPT !.pc = "logi_params"]
       ELSE Fail("UnknownMode")
    /\ UNCHANGED <<fees, feeRes, policy, polRes, curve, curveRes>>

LogisticParams ==
    /\ run.pc = "logi_params"
    /\ LET res == logistic_params(run.args, run.args.grid)
       IN  IF res = "ok" THEN run' = [run EXCEPT !.pc = "logi_bins"]
           ELSE Fail(res)
    /\ UNCHANGED <<fees, feeRes, policy, polRes, curve, curveRes>>

ResolveBins ==
    /\ run.pc \in {"geo_bins", "logi_bins"}
    /\ LET res == resolve_bins(run.args, run.args.grid)
       IN  IF res.st = "ok"
           THEN run' = [run EXCEPT !.bins = res.n,
                                  !.pc = IF run.pc = "geo_bins"
                                         THEN "geo_curve" ELSE "logi_curve"]
           ELSE IF res.st = "panic"
           THEN run' = [run EXCEPT !.pc = "panicked"]
           ELSE Fail(res.st)
    /\ UNCHANGED <<fees, feeRes, policy, polRes, curve, curveRes>>

BuildGeometric ==
    /\ run.pc = "geo_curve"
    /\ LET res == build_geometric(run.args, run.args.grid, run.bins)
       IN  IF res.st = "ok"
           THEN /\ run' = [run EXCEPT !.pc = AfterCurveBuilt(run.args.mode)]
                /\ curve' = res.c
           ELSE Fail(res.st) /\ UNCHANGED curve
    /\ UNCHANGED <<fees, feeRes, policy, polRes, curveRes>>

VerifyGeometricRun ==
    /\ run.pc = "verify"
    /\ \E rep \in {verify_geometric(curve, run.bins)} :
           /\ curveRes' = rep
           /\ IF rep.ok
              THEN run' = [run EXCEPT !.pc = "write", !.verified = TRUE]
              ELSE Fail("NegativeAllocation")
    /\ UNCHANGED <<fees, feeRes, policy, polRes, curve>>

\* The midpoint supply of the logistic run: as given, or the value that
\* puts S(p0) at 0, kept as the logarithm it is.
logistic_s_mid(args, grid) ==
    IF IsZero(args.s_mid)
    THEN [k |-> "ln_over_k",
          arg |-> FDiv(FSub(args.p_max.v, grid.p0), FSub(grid.p0, args.p_min)),
          kk |-> args.k]
    ELSE args.s_mid

BuildLogistic ==
    /\ run.pc = "logi_curve"
    /\ curve' = [kind |-> "LogisticS", grid |-> run.args.grid,
                 p_min |-> run.args.p_min, p_max |-> run.args.p_max.v,
                 k |-> run.args.k,
                 s_mid |-> logistic_s_mid(run.args, run.args.grid),
                 bins |-> run.bins]
    /\ run' = [run EXCEPT !.pc = AfterCurveBuilt(run.args.mode)]
    /\ UNCHANGED <<fees, feeRes, policy, polRes, curveRes>>

\* write_schedule_csv_*: the file is created, the header written and one
\* row written for each bin.
WriteScheduleCsv ==
    /\ run.pc = "write"
    /\ run' = [run EXCEPT !.pc = "draw",
                          !.csv = [created |-> TRUE, header |-> TRUE,
                                   guards |-> price_guard_lines(
                                       run.args.grid, run.bins,
                                       run.args.price_guard_bps),
                                   rows |-> Passes(run.bins)]]
    /\ UNCHANGED <<fees, feeRes, policy, polRes, curve, curveRes>>

DrawCharts ==
    /\ run.pc = "draw"
    /\ run' = [run EXCEPT !.pc = "done", !.charts = run.args.draw]
    /\ UNCHANGED <<fees, feeRes, policy, polRes, curve, curveRes>>

NextRun ==
    \/ ValidateInputs \/ LoadAllowlist \/ CreateOutDir \/ Dispatch
    \/ LogisticParams \/ ResolveBins \/ BuildGeometric \/ VerifyGeometricRun
    \/ BuildLogistic \/ WriteScheduleCsv \/ DrawCharts

SpecRun == InitRun /\ [][NextRun]_vars

\* No schedule.csv header or row and no chart has been written.
NoOutput == run.csv = NoCsv /\ ~run.charts

\* C9: a run that ends in a validation error of any kind has produced no
\* output: no schedule.csv row or header and no chart has been written
\* before the error is returned; in geometric mode the verifier has run to
\* completion before the schedule file is created.
C9_NoOutputOnError ==
    /\ run.pc = "failed" => (run.err # "none" /\ NoOutput)
    /\ run.pc \in {"write", "draw", "done"} => run.err = "none"
    /\ (run.args.mode = "geometric" /\ run.csv.created)
       => (run.verified /\ curveRes.ok /\ curveRes.bins = run.bins)

\* A geometric run that the verifier ended with NegativeAllocation after
\* the output directory had been created.
C9_Witness ==
    /\ run.pc = "failed"
    /\ run.err = "NegativeAllocation"
    /\ run.dir_created
    /\ NoOutput

\* The error kinds of configuration validation.
EagerKinds ==
    {"InvalidGridParameter", "InvalidBinCount", "InvalidFeeCap",
     "InvalidPriceGuard", "MissingCurveParameter", "OrderingViolation"}

\* C10: every error kind other than NegativeAllocation is detected before
\* the program performs any side effect: before the allowlist file is read
\* and before the output directory is created.
C10_EagerDetection ==
    run.err \in EagerKinds => (~run.allowlist_read /\ ~run.dir_created)

\* The four conditions validate_inputs rejects, read off the arguments.
BadGrid(a) ==
    \/ ~IsFinite(a.grid.p0) \/ FLe(a.grid.p0, Zero)
    \/ ~IsFinite(a.grid.bin_step_bps) \/ FLe(a.grid.bin_step_bps, Zero)
BadBins(a) == a.bins.some /\ I64Cmp(a.bins.v, I64(1)) < 0
BadFeeCap(a) == ~(FGe(a.max_fee_rate, Zero) /\ FLe(a.max_fee_rate, One))
BadGuard(a) ==
    /\ a.price_guard_bps.some
    /\ ~(FGe(a.price_guard_bps.v, Zero)
         /\ FLt(a.price_guard_bps.v, FromInt(10000)))

ValidationKinds ==
    {"InvalidGridParameter", "InvalidBinCount", "InvalidFeeCap",
     "InvalidPriceGuard"}

\* C11: validate_inputs returns an error if p0 or bin_step_bps is non-finite
\* or <= 0, if a supplied bins is < 1, if max_fee_rate is outside [0,1], or
\* if a supplied price_guard_bps is outside [0, 10000); it returns Ok in
\* every other configuration; so the price-guard formulas are never
\* evaluated with impact_bps >= 10000.
C11_ValidateInputs ==
    /\ run.pc # "start"
       => ((run.err \in ValidationKinds)
           <=> (BadGrid(run.args) \/ BadBins(run.args) \/ BadFeeCap(run.args)
                \/ BadGuard(run.args)))
    /\ run.err \in ValidationKinds
       => (run.pc = "failed" /\ ~run.dir_created /\ ~run.allowlist_read)
    /\ \A j \in 1..Len(run.csv.guards) :
           /\ FLt(run.csv.guards[j].impact_bps, FromInt(10000))
           /\ FGe(run.csv.guards[j].impact_bps, Zero)

\* A run that passed validation with a price guard and wrote the guard
\* lines of its schedule.
C11_Witness ==
    /\ run.csv.created
    /\ Len(run.csv.guards) = 3
    /\ FGt(run.csv.guards[1].impact_bps, Zero)
    /\ FLt(run.csv.guards[3].min_y_for_x, run.csv.guards[3].price)

\* The schedules the monotonicity claim is about.
FeeParamsNonNegative ==
    /\ FGe(fees.base_factor, Zero)
    /\ FGe(fees.variable_fee_control, Zero)
    /\ FGt(fees.max_fee_rate, Zero)
    /\ FLe(fees.max_fee_rate, One)

\* The total fee at va is at the cap.
AtCap(fee) == fee = FMax(fees.max_fee_rate, Zero)

\* C12: for fee parameters with base_factor >= 0, variable_fee_control >= 0
\* and max_fee_rate in (0,1], and any 0 <= va1 <= va2: if neither
\* total_fee_rate(va1) nor total_fee_rate(va2) is at the cap, then
\* total_fee_rate(va1) <= total_fee_rate(va2).
C12_FeeMonotoneBelowCap ==
    (feeRes.op = "total_fee_rate" /\ FeeParamsNonNegative
     /\ FGe(feeRes.va, Zero) /\ ~AtCap(feeRes.v))
    => \A va1 \in VolAccums :
          (FGe(va1, Zero) /\ FLe(va1, feeRes.va)
           /\ ~AtCap(total_fee_rate(fees, va1)))
          => FLe(total_fee_rate(fees, va1), feeRes.v)

\* A total fee below the cap that is strictly above the total fee of a
\* smaller accumulator value.
C12_Witness ==
    /\ feeRes.op = "total_fee_rate" /\ FeeParamsNonNegative
    /\ ~AtCap(feeRes.v)
    /\ \E va1 \in VolAccums :
          /\ FGt(va1, Zero) /\ FLt(va1, feeRes.va)
          /\ FLt(total_fee_rate(fees, va1), feeRes.v)

\* The plain sums of the allocations and of the revenues of bins 0..i.
RECURSIVE SupplyThrough(_)
SupplyThrough(i) ==
    IF i < 0 THEN Zero ELSE FAdd(SupplyThrough(i - 1), DxAt(i))
RECURSIVE RevenueThrough(_)
RevenueThrough(i) ==
    IF i < 0 THEN Zero
    ELSE FAdd(RevenueThrough(i - 1), FMul(PxAt(i), DxAt(i)))

\* The rows written are one per bin, in increasing index order, each with
\* the price, the allocation and the revenue of its bin.
RowsInOrder ==
    /\ Len(curveRes.v) = (IF curveRes.i < 0 THEN 0 ELSE curveRes.i)
    /\ \A k \in 1..Len(curveRes.v) :
          /\ curveRes.v[k].bin = I64(k - 1)
          /\ curveRes.v[k].price = PxAt(k - 1)
          /\ curveRes.v[k].delta_x = DxAt(k - 1)
          /\ curveRes.v[k].revenue_bin = FMul(PxAt(k - 1), DxAt(k - 1))

\* A schedule written for a curve as the run hands it to the writer: the
\* grid validated and the allocations non-negative.
WrittenValid ==
    /\ curveRes.op = "write_schedule_csv"
    /\ GridValid
    /\ FGe(curve.r0_quote, Zero)

SupplyFiniteThrough(i) ==
    \A j \in 0..i : IsFinite(DxAt(j)) /\ IsFinite(SupplyThrough(j))
RevenueFiniteThrough(i) ==
    \A j \in 0..i :
        IsFinite(FMul(PxAt(j), DxAt(j))) /\ IsFinite(RevenueThrough(j))

C14_ZeroFromLastBin ==
    /\ (curveRes.op = "delta_x_of_bin"
        /\ I64Cmp(I64(curveRes.i + 1), curve.bins) >= 0)
       => curveRes.v = Zero
    /\ (curveRes.op = "delta_x_of_bin_wide"
        /\ (curveRes.i = I64_MAX
            \/ I64Cmp(I64Inc(curveRes.i), curve.bins) >= 0))
       => curveRes.v = Zero

(***************************************************************************)
(* The inverse solve under query: run_geometric builds a curve with        *)
(* r0_quote = 0, sets r0_quote to solve_r0_from_supply(target_s, n), and   *)
(* the closed form is then read at the same n.                             *)
(***************************************************************************)
SolveThetas == {Zero, Frac(1, 2), One, FromInt(2)}
SolveTargets == {FromInt(1000), Frac(1, 3), Pow2(1000, 0)}
\* 1, 2, 3, 5, 600 and 2^32
SolveBins ==
    {I64(1), I64(2), I64(3), I64(5), I64(600), [hi |-> 1, lo |-> 0]}

\* The unsolved curves; 600 bins are taken only where r^600 is a power of
\* two beyond the f64 range (r = 4 or r = 1/4) or r = 1.
SolveCases ==
    {x \in [c : {[kind |-> "Geometric",
                  grid |-> [p0 |-> p, bin_step_bps |-> b],
                  theta |-> th, r0_quote |-> Zero] :
                    p \in GeoP0s, b \in GeoBinSteps, th \in SolveThetas},
            target_s : SolveTargets, n : SolveBins] :
        x.n = I64(600)
        => /\ x.c.grid.bin_step_bps = FromInt(30000)
           /\ x.c.theta # Frac(1, 2)}

InitSolve ==
    /\ \E x \in SolveCases :
          /\ curve = x.c
          /\ curveRes = [op |-> "built", target_s |-> x.target_s, n |-> x.n]
    /\ fees = Idle /\ feeRes = Idle
    /\ policy = Idle /\ polRes = Idle /\ run = Idle

SolveR0FromSupply ==
    /\ curveRes.op = "built"
    /\ curve' = [curve EXCEPT !.r0_quote =
                    solve_r0_from_supply(curve, curveRes.target_s, curveRes.n)]
    /\ curveRes' = [curveRes EXCEPT !.op = "solve_r0_from_supply"]
    /\ UNCHANGED <<fees, feeRes, policy, polRes, run>>

SNClosedAfterSolve ==
    /\ curveRes.op = "solve_r0_from_supply"
    /\ curveRes' = [op |-> "s_n_closed", target_s |-> curveRes.target_s,
                    n |-> curveRes.n, v |-> s_n_closed(curve, curveRes.n)]
    /\ UNCHANGED <<fees, feeRes, policy, polRes, curve, run>>

NextSolve == SolveR0FromSupply \/ SNClosedAfterSolve

SpecSolve == InitSolve /\ [][NextSolve]_vars

\* C15 as stated: for every grid, theta, target_S > 0 and n >= 1, the curve
\* whose r0_quote is solve_r0_from_supply(target_S, n) has
\* s_n_closed(n) = target_S.
C15_AsStated ==
    (curveRes.op = "s_n_closed" /\ GridValid)
    => curveRes.v = curveRes.target_s

\* The round trips the inverse solve supports: the grid is valid, the bin
\* count is kept by `n as i32`, r^n is finite and the solved r0_quote is a
\* finite positive number.
SolvedInRange ==
    /\ curveRes.op = "s_n_closed"
    /\ GridValid
    /\ FitsI32(curveRes.n)
    /\ IsFinite(FPowi(r(curve), AsI32(curveRes.n)))
    /\ IsFinite(curve.r0_quote) /\ FGt(curve.r0_quote, Zero)

\* C15: for every grid with p0 > 0 and bin_step_bps > 0, every theta, every
\* target_S > 0 and every bin count 1 <= n < 2^31 such that r^n is finite
\* and solve_r0_from_supply(target_S, n) is a finite positive number, the
\* curve with that r0_quote has s_n_closed(n) = target_S, in the degenerate
\* branch and in the general one.
C15_RoundTripInRange ==
    SolvedInRange => curveRes.v = curveRes.target_s

\* A round trip through the general branch and one through the degenerate
\* branch are both made; this is the general one, with five bins.
C15_Witness ==
    /\ SolvedInRange
    /\ curveRes.n = I64(5)
    /\ ~FLt(FAbs(FSub(r(curve), One)), R_ONE_TOL)
    /\ curveRes.v = curveRes.target_s
    /\ curve.r0_quote # FMul(curveRes.target_s, curve.grid.p0)

\* The run is in geometric mode and its curve has been built.
GeometricBuilt ==
    /\ run.args.mode = "geometric"
    /\ run.pc \in {"verify", "write", "draw", "done"}

\* r0 is absent, zero or negative; r0 is a number above zero.
R0Unset == ~run.args.r0.some \/ FLe(run.args.r0.v, Zero)
R0Positive == run.args.r0.some /\ FGt(run.args.r0.v, Zero)

\* C16: in geometric mode an r0 that is absent, zero or negative is unset:
\* with a target supply the curve's r0_quote is
\* solve_r0_from_supply(target_supply, bins) from before verification on,
\* without one the run fails with MissingCurveParameter and no curve is
\* built; an r0 > 0 is the curve's r0_quote whatever the target supply.
C16_R0Unset ==
    /\ (GeometricBuilt /\ R0Unset)
       => /\ run.args.target_supply.some
          /\ curve.r0_quote
               = solve_r0_from_supply(curve, run.args.target_supply.v,
                                      run.bins)
    /\ (GeometricBuilt /\ R0Positive) => curve.r0_quote = run.args.r0.v
    /\ (run.args.mode = "geometric" /\ run.err = "MissingCurveParameter")
       => R0Unset /\ ~run.args.target_supply.some /\ curve = None

\* A run given a negative r0 and a target supply, about to be verified with
\* the solved r0_quote.
C16_Witness ==
    /\ GeometricBuilt /\ run.pc = "verify" /\ ~run.verified
    /\ run.args.r0.some /\ FLt(run.args.r0.v, Zero)
    /\ run.args.target_supply.some
    /\ FGt(curve.r0_quote, Zero)

\* q^i for an i64 exponent i, the power the documentation of price_of_bin
\* names (P_i = P_0 * q^i): the exponent is i itself.  Beyond the 32-bit
\* range it is evaluated for q = 2^(f/LogDen), where i = k * LogDen + rem
\* gives q^i = 2^(f*k + f*rem/LogDen).
PowI64(qq, i) ==
    IF FitsI32(i) THEN FPowi(qq, i.lo)
    ELSE IF ~(IsFinite(qq) /\ qq.s = 1 /\ qq.n = 1 /\ qq.d = 1 /\ qq.e = 0)
    THEN Unrepresentable
    ELSE LET k == i.hi * 1024 + ((i.lo \div LogDen) % 1024)
             rem == i.lo % LogDen
         IN  Pow2(qq.f * k + ((qq.f * rem) \div LogDen),
                  (qq.f * rem) % LogDen)

\* C17: price_of_bin(i) returns p0 * q^i for every bin index i of the i64
\* domain, negative indices and indices beyond the 32-bit range included:
\* the exponent used is i.
C17_PriceOfEveryIndex ==
    curveRes.op = "price_of_bin"
    => curveRes.v = FMul(curve.grid.p0, PowI64(q(curve.grid), curveRes.n))

(***************************************************************************)
(* The allocations of a geometric curve under query, far bins included:    *)
(* the curve is built once, then delta_x_of_bin is read and the verifier   *)
(* is run.  Bins beyond 1000 are read only where r is a power of two.      *)
(***************************************************************************)
AllocThetas == {Frac(1, 2), One, Frac(3, 2), FromInt(2)}
AllocR0s == {FromInt(8), Pow2(-1000, 0)}
AllocCurves ==
    {[kind |-> "Geometric", grid |-> [p0 |-> p, bin_step_bps |-> b],
      theta |-> th, r0_quote |-> r0] :
        p \in {One, Pow2(1020, 0)}, b \in {FromInt(30000), FromInt(12500)},
        th \in AllocThetas, r0 \in AllocR0s}
AllocNearBins == {0, 1, 2, 3}
AllocFarBins == {1074, 1100}
AllocBins(c) ==
    IF c.grid.bin_step_bps = FromInt(30000)
    THEN AllocNearBins \cup AllocFarBins ELSE AllocNearBins

InitAlloc ==
    /\ curve \in AllocCurves
    /\ curveRes = None
    /\ fees = Idle /\ feeRes = Idle
    /\ policy = Idle /\ polRes = Idle /\ run = Idle

AllocDeltaXOfBin ==
    \E i \in AllocBins(curve) :
        /\ curveRes' = [op |-> "delta_x_of_bin", i |-> i,
                        v |-> geometric_delta_x_of_bin(curve, I64(i))]
        /\ UNCHANGED <<fees, feeRes, policy, polRes, curve, run>>

AllocVerifyGeometric ==
    \E n \in AllocNearBins :
        /\ curveRes' = [op |-> "verify_geometric", i |-> n,
                        v |-> verify_geometric(curve, I64(n))]
        /\ UNCHANGED <<fees, feeRes, policy, polRes, curve, run>>

NextAlloc == AllocDeltaXOfBin \/ AllocVerifyGeometric

SpecAlloc == InitAlloc /\ [][NextAlloc]_vars

\* The curves the allocation claim is about: q > 1 and r0_quote > 0.
AllocValid == GridValid /\ FGt(q(curve.grid), One) /\ FGt(curve.r0_quote, Zero)
ThetaBelowOne == FGt(curve.theta, Zero) /\ FLt(curve.theta, One)
ThetaAboveOne == FGt(curve.theta, One)

\* C18 as stated: for q > 1 and r0_quote > 0 the allocation is strictly
\* decreasing from every bin i >= 0 to the next when theta is in (0,1) and
\* strictly increasing when theta > 1; every allocation is > 0, and the
\* verifier never returns its negative-allocation error.
C18_AsStated ==
    /\ (curveRes.op = "delta_x_of_bin" /\ AllocValid)
       => /\ ThetaBelowOne => FLt(DxAt(curveRes.i + 1), curveRes.v)
          /\ ThetaAboveOne => FGt(DxAt(curveRes.i + 1), curveRes.v)
          /\ FGt(curveRes.v, Zero)
    /\ (curveRes.op = "verify_geometric" /\ AllocValid) => curveRes.v.ok

\* TRUE for an allocation that is a finite number above zero.
PositiveFinite(v) == IsFinite(v) /\ FGt(v, Zero)

\* C18: for q > 1 and r0_quote > 0 and bins 0 <= i < 2^31 - 1: with theta in
\* (0,1) the allocation of bin i+1 is below that of bin i as long as the
\* latter is finite and above zero, and once an allocation has underflowed
\* to 0 every later one is 0; with theta > 1 the allocation of bin i+1 is
\* above that of bin i as long as the latter is finite and above zero, and
\* once one has overflowed to +inf every later one is +inf; no allocation is
\* negative (it is a number >= 0, or NaN where delta_x0 is 0 and r^i is
\* +inf), so the verifier never returns its negative-allocation error.
C18_MonotoneWhileInRange ==
    /\ (curveRes.op = "delta_x_of_bin" /\ AllocValid)
       => /\ (ThetaBelowOne /\ PositiveFinite(curveRes.v))
             => FLt(DxAt(curveRes.i + 1), curveRes.v)
          /\ (ThetaBelowOne /\ IsZero(curveRes.v))
             => IsZero(DxAt(curveRes.i + 1))
          /\ (ThetaAboveOne /\ PositiveFinite(curveRes.v))
             => FGt(DxAt(curveRes.i + 1), curveRes.v)
          /\ (ThetaAboveOne /\ curveRes.v = Inf(1))
             => DxAt(curveRes.i + 1) = Inf(1)
          /\ ~FLt(curveRes.v, Zero)
    /\ (curveRes.op = "verify_geometric" /\ AllocValid) => curveRes.v.ok

\* An allocation read at a far bin of a decaying curve: still above zero
\* and above the next one, which has underflowed to 0.
C18_Witness ==
    /\ curveRes.op = "delta_x_of_bin" /\ AllocValid /\ ThetaBelowOne
    /\ curveRes.i = 1074
    /\ PositiveFinite(curveRes.v)
    /\ IsZero(DxAt(curveRes.i + 1))

\* The run has resolved its bin count and gone on to build its curve.
BinsResolved ==
    run.pc \in {"geo_curve", "logi_curve", "verify", "write", "draw", "done"}

\* C19: in every run that passes validation the bin count handed to the
\* curve, the verifier and the schedule writer is >= 1, whether it was
\* supplied, derived from the end price or the default of 500; when --bins
\* is supplied the end price is ignored: the count is the supplied one and
\* the run never fails the end_price > p0 check.
C19_BinsAtLeastOne ==
    /\ BinsResolved
       => /\ I64Cmp(run.bins, I64(1)) >= 0
          /\ run.args.bins.some => run.bins = run.args.bins.v
          /\ (~run.args.bins.some /\ ~run.args.end_price.some)
             => run.bins = I64(DEFAULT_BINS)
          /\ run.csv.created => run.csv.rows = run.bins.lo
    /\ run.args.bins.some => run.err # "EndPriceNotAbove"

\* A finished run given both a bin count and an end price that is not above
\* p0: the schedule has the supplied number of rows.
C19_Witness ==
    /\ run.pc = "done"
    /\ run.args.bins.some /\ run.args.end_price.some
    /\ FLe(run.args.end_price.v, run.args.grid.p0)
    /\ run.bins = run.args.bins.v
    /\ run.csv.rows = 3

\* tau(t) lies between the two ends of the ramp.
TauWithinEnds ==
    /\ FGe(polRes.v, FMin(policy.tau_start_pct, policy.tau_end_pct))
    /\ FLe(polRes.v, FMax(policy.tau_start_pct, policy.tau_end_pct))

\* tau is no larger at any later time than at the time queried.
TauNonIncreasingFrom ==
    \A t2 \in ElapsedTimes :
        FLe(polRes.t, t2) => FLe(tau(policy, t2), polRes.v)

\* C20 as stated: for every policy and every elapsed time t, tau(t) lies in
\* [min(tau_start_pct, tau_end_pct), max(tau_start_pct, tau_end_pct)]; with
\* tau_start_pct >= tau_end_pct tau is non-increasing in t; for
\* ramp_secs <= 0 the interpolation branch, and with it the division by
\* ramp_secs, is never reached.
C20_AsStated ==
    polRes.op = "tau"
    => /\ TauWithinEnds
       /\ FGe(policy.tau_start_pct, policy.tau_end_pct)
          => TauNonIncreasingFrom
       /\ FLe(policy.ramp_secs, Zero)
          => tau_branch(policy, polRes.t) # "interpolation"

\* The policies and times the bound holds for: the two ends and their
\* difference are finite, and neither ramp_secs nor t is NaN.
TauInRange ==
    /\ polRes.op = "tau"
    /\ IsFinite(policy.tau_start_pct) /\ IsFinite(policy.tau_end_pct)
    /\ IsFinite(FSub(policy.tau_end_pct, policy.tau_start_pct))
    /\ ~IsNaN(policy.ramp_secs)
    /\ ~IsNaN(polRes.t)

\* C20: for every policy whose tau_start_pct, tau_end_pct and their
\* difference are finite and whose ramp_secs is not NaN, and every elapsed
\* time t that is not NaN, tau(t) lies in [min(tau_start_pct, tau_end_pct),
\* max(tau_start_pct, tau_end_pct)]; with tau_start_pct >= tau_end_pct tau is
\* non-increasing over such times; for ramp_secs <= 0 the interpolation
\* branch is not reached.  At t = NaN both tests fail, the interpolation is
\* evaluated whatever ramp_secs is, and tau is NaN.
C20_TauBoundedInRange ==
    /\ TauInRange
       => /\ TauWithinEnds
          /\ FGe(policy.tau_start_pct, policy.tau_end_pct)
             => \A t2 \in ElapsedTimes :
                   (~IsNaN(t2) /\ FLe(polRes.t, t2))
                   => FLe(tau(policy, t2), polRes.v)
          /\ FLe(policy.ramp_secs, Zero)
             => tau_branch(policy, polRes.t) # "interpolation"
    /\ (polRes.op = "tau" /\ IsNaN(polRes.t))
       => /\ tau_branch(policy, polRes.t) = "interpolation"
          /\ IsNaN(polRes.v)

\* tau read after the start of a ramp that has no length: the value is
\* tau_end_pct, below tau_start_pct.
C20_Witness ==
    /\ TauInRange
    /\ FLe(policy.ramp_secs, Zero)
    /\ FGt(polRes.t, Zero)
    /\ polRes.v = policy.tau_end_pct
    /\ FLt(polRes.v, policy.tau_start_pct)
====
